---- MODULE Spec2Model ----
(***************************************************************************)
(* State-machine model of src/main.rs (bat v1): main / run / get_changes / *)
(* print_file.  One action per step of the program; the external          *)
(* collaborators (git2 diff backend, file reader, terminal size, stdout)  *)
(* are inputs drawn from small sets.                                       *)
(***************************************************************************)
EXTENDS Integers, Sequences, FiniteSets, TLC

(* ---- bounds of the model ---- *)
MaxFiles == 2     \* at most this many FILE arguments
MaxHunks == 2     \* at most this many hunks delivered by the backend in one run
MaxLine  == 2     \* hunks lie within lines 0..MaxLine; the files of one run have
                  \* at most this many lines together

(* ---- program constants ---- *)
PANEL_WIDTH == 7
I32_MAX     == 2147483647

VARIABLES
    pc,            \* position of the single thread of control
    file,          \* 1-based position of run's loop in the FILE arguments
    line_changes,  \* Option<LineChanges>: the map being built / passed to print_file
    handled,       \* <<h>>: the hunk last handed to the hunk closure in this get_changes
                   \* call, <<>> before the first (history)
    before,        \* the map as it was before that hunk was handled (history)
    delivered,     \* hunks handed to the hunk closure so far in this run (bounds the model)
    opened,        \* lines of the files opened so far in this run (bounds the model)
    backend,       \* how the git backend answered get_changes for this file (history)
    nlines,        \* number of physical lines the reader yields for this file
    term_width,    \* term.size() column count read by print_file
    idx,           \* enumerate() index of the body loop
    out,           \* lines written to stdout, in order
    result,        \* value returned by run: "none" (still running), "Ok", or an io::ErrorKind
    cause,         \* why the run stopped (history)
    exit_status,   \* process exit status; -1 while running
    stderr         \* what was written to stderr

vars == <<pc, file, line_changes, handled, before, delivered, opened, backend, nlines,
          term_width, idx, out, result, cause, exit_status, stderr>>

(* ---- data ---- *)
LineChange == {"Added", "RemovedAbove", "RemovedBelow", "Modified"}

None      == [some |-> FALSE, map |-> <<>>]
Some(m)   == [some |-> TRUE, map |-> m]

\* hunk.old_lines(), hunk.new_start(), hunk.new_lines(): u32 values.  The code
\* only tests old_lines against 0, so 0 and 1 stand for "none" and "some".
Hunk == {h \in [old_lines : 0..1, new_start : 0..MaxLine, new_lines : 0..MaxLine] :
           h.new_start + h.new_lines <= MaxLine + 1}

WriteOutcome   == {"ok", "BrokenPipe", "Other"}
BackendOutcome == {"ok", "no_repo", "bad_pathspec", "diff_failed"}
StartupOutcome == {"ok", "no_home", "no_themes", "no_monokai"}
\* term.size(): the widest terminal that is too narrow and the narrowest that fits
Widths         == {PANEL_WIDTH, PANEL_WIDTH + 1}

(* `x as i32` on a u32 and `x as u32` on an i32: two's-complement wrap. *)
AsI32(x) == IF x <= I32_MAX THEN x ELSE x - I32_MAX - I32_MAX - 2
AsU32(x) == IF x >= 0 THEN x ELSE x + I32_MAX + I32_MAX + 2

(* ---- get_changes ---- *)

\* mark_section with an exclusive upper end (drops the `+ 1`)
mark_section_excl(lc, start, end, change) ==
    LET range == start..(AsU32(end + 1) - 2)
    IN  [line \in (DOMAIN lc) \cup range |-> IF line \in range THEN change ELSE lc[line]]

\* mark_section that keeps an existing entry (entry().or_insert instead of insert)
mark_section_keep(lc, start, end, change) ==
    LET range == start..(AsU32(end + 1) - 1)
    IN  [line \in (DOMAIN lc) \cup range |-> IF line \in DOMAIN lc THEN lc[line] ELSE change]

\* for line in start..(end + 1) as u32 { line_changes.insert(line, change) }
mark_section(lc, start, end, change) ==
    LET range == start..(AsU32(end + 1) - 1)
    IN  [line \in (DOMAIN lc) \cup range |-> IF line \in range THEN change ELSE lc[line]]

\* new_end without the `- 1`
new_end_nosub(new_start, new_lines) == AsI32(new_start + new_lines)

\* let new_end = (new_start + new_lines) as i32 - 1;
\* (the u32 sum stays far below 2^32 for the line numbers of the model)
new_end(new_start, new_lines) == AsI32(new_start + new_lines) - 1

\* hunk callback without the `new_start <= 0` test in the deletion branch
hunk_cb_nozero(lc, hunk) ==
    LET old_lines == hunk.old_lines
        new_start == hunk.new_start
        new_lines == hunk.new_lines
    IN  IF old_lines = 0 /\ new_lines > 0
        THEN mark_section(lc, new_start, new_end(new_start, new_lines), "Added")
        ELSE IF new_lines = 0 /\ old_lines > 0
        THEN mark_section(lc, new_start, AsI32(new_start), "RemovedBelow")
        ELSE mark_section(lc, new_start, new_end(new_start, new_lines), "Modified")

\* the hunk closure passed to diff.foreach
hunk_cb(lc, hunk) ==
    LET old_lines == hunk.old_lines
        new_start == hunk.new_start
        new_lines == hunk.new_lines
    IN  IF old_lines = 0 /\ new_lines > 0
        THEN mark_section(lc, new_start, new_end(new_start, new_lines), "Added")
        ELSE IF new_lines = 0 /\ old_lines > 0
        THEN IF new_start <= 0
             THEN mark_section(lc, 1, 1, "RemovedAbove")
             ELSE mark_section(lc, new_start, AsI32(new_start), "RemovedBelow")
        ELSE mark_section(lc, new_start, new_end(new_start, new_lines), "Modified")

(* ---- print_file ---- *)

\* glyph selection whose fallback arm paints the Modified glyph
line_change_glyph_bad(changes, line_nr) ==
    IF changes.some /\ line_nr \in DOMAIN changes.map
    THEN CASE changes.map[line_nr] = "Added"        -> "+"
           [] changes.map[line_nr] = "RemovedAbove" -> "overline"
           [] changes.map[line_nr] = "RemovedBelow" -> "_"
           [] changes.map[line_nr] = "Modified"     -> "~"
    ELSE "~"

\* the `let line_change = if let Some(ref changes) = line_changes {...}` expression
line_change_glyph(changes, line_nr) ==
    IF changes.some
    THEN IF line_nr \in DOMAIN changes.map
         THEN CASE changes.map[line_nr] = "Added"        -> "+"
                [] changes.map[line_nr] = "RemovedAbove" -> "overline"
                [] changes.map[line_nr] = "RemovedBelow" -> "_"
                [] changes.map[line_nr] = "Modified"     -> "~"
         ELSE " "
    ELSE " "

\* line numbering that starts at 0
line_nr_zero(i) == i

\* let line_nr = idx + 1;
line_nr(i) == i + 1

\* a body loop that stops one line early
has_next_line_short(i, n) == i + 1 < n

\* hightlighter.reader.lines().enumerate() still yields an item
has_next_line(i, n) == i < n

\* an output line: <<file index, kind, line number, glyph>>
Event(f, kind, nr, glyph) == <<f, kind, nr, glyph>>

(* ---- process termination ---- *)

\* a panic unwinds out of main (dropping the locals on the way): message on
\* stderr, status 101
Panic(why) ==
    /\ pc' = "exited"
    /\ cause' = why
    /\ exit_status' = 101
    /\ stderr' = "panic"
    /\ line_changes' = None
    /\ handled' = <<>>
    /\ before' = <<>>
    /\ idx' = 0
    /\ nlines' = 0

\* a function returns Err(kind) to run, whose `?` returns it to main; the
\* locals of the returning functions are dropped
ReturnErr(kind, why) ==
    /\ pc' = "main_result"
    /\ result' = kind
    /\ cause' = why
    /\ line_changes' = None
    /\ handled' = <<>>
    /\ before' = <<>>
    /\ idx' = 0
    /\ nlines' = 0
    /\ term_width' = 0

Init ==
    /\ pc = "main"
    /\ file = 1
    /\ line_changes = None
    /\ handled = <<>>
    /\ before = <<>>
    /\ delivered = 0
    /\ opened = 0
    /\ backend = "pending"
    /\ nlines = 0
    /\ term_width = 0
    /\ idx = 0
    /\ out = <<>>
    /\ result = "none"
    /\ cause = "none"
    /\ exit_status = -1
    /\ stderr = ""

\* run, lines 115-126: home directory, theme folder, the "Monokai" theme
run_startup ==
    /\ pc = "main"
    /\ \E o \in StartupOutcome :
         CASE o = "ok" ->
                /\ pc' = "run_loop"
                /\ UNCHANGED <<result, cause, exit_status, stderr, line_changes,
                               handled, before, idx, nlines, term_width>>
           [] o = "no_monokai" ->
                /\ Panic("no_monokai")
                /\ UNCHANGED <<result, term_width>>
           [] OTHER ->
                /\ ReturnErr("Other", o)
                /\ UNCHANGED <<exit_status, stderr>>
    /\ UNCHANGED <<file, delivered, opened, backend, out>>

\* run, lines 128-130: the FILE iterator yields another file; println!("{}", file)
run_next_file ==
    /\ pc = "run_loop"
    /\ file <= MaxFiles
    /\ \E w \in WriteOutcome :
         IF w = "ok"
         THEN /\ out' = Append(out, Event(file, "path", 0, ""))
              /\ pc' = "get_changes"
              /\ UNCHANGED <<cause, exit_status, stderr, line_changes, handled, before,
                             idx, nlines>>
         ELSE /\ Panic(IF w = "BrokenPipe" THEN "println_broken_pipe" ELSE "println_failed")
              /\ UNCHANGED out
    /\ UNCHANGED <<file, delivered, opened, backend, term_width, result>>

\* run, lines 128-135: the FILE iterator is exhausted (or there is no FILE argument)
run_done ==
    /\ pc = "run_loop"
    /\ pc' = "main_result"
    /\ result' = "Ok"
    /\ UNCHANGED <<file, line_changes, handled, before, delivered, opened, backend, nlines,
                   term_width, idx, out, cause, exit_status, stderr>>

\* get_changes, lines 139-147: open repository, path spec, diff; each `.ok()?`
\* returns None
get_changes_open ==
    /\ pc = "get_changes"
    /\ \E b \in BackendOutcome :
         /\ backend' = b
         /\ IF b = "ok"
            THEN /\ line_changes' = Some(<<>>)
                 /\ pc' = "foreach"
            ELSE /\ line_changes' = None
                 /\ pc' = "print_file"
    /\ handled' = <<>>
    /\ before' = <<>>
    /\ UNCHANGED <<file, delivered, opened, nlines, term_width, idx, out, result, cause,
                   exit_status, stderr>>

\* get_changes, lines 158-182: diff.foreach hands one hunk to the closure
foreach_hunk ==
    /\ pc = "foreach"
    /\ delivered < MaxHunks
    /\ \E h \in Hunk :
         /\ line_changes' = Some(hunk_cb(line_changes.map, h))
         /\ handled' = <<h>>
         /\ before' = line_changes.map
    /\ delivered' = delivered + 1
    /\ UNCHANGED <<pc, file, opened, backend, nlines, term_width, idx, out,
                   result, cause, exit_status, stderr>>

\* get_changes, lines 185-187: println!("{:?}", line_changes); Some(line_changes)
get_changes_return ==
    /\ pc = "foreach"
    /\ \E w \in WriteOutcome :
         IF w = "ok"
         THEN /\ out' = Append(out, Event(file, "trace", 0, ""))
              /\ pc' = "print_file"
              /\ handled' = <<>>
              /\ before' = <<>>
              /\ UNCHANGED <<cause, exit_status, stderr, line_changes, idx, nlines>>
         ELSE /\ Panic(IF w = "BrokenPipe" THEN "println_broken_pipe" ELSE "println_failed")
              /\ UNCHANGED out
    /\ UNCHANGED <<file, delivered, opened, backend, term_width, result>>

\* print_file, lines 57-66: HighlightFile::new(...)?, term.size()
print_file_open ==
    /\ pc = "print_file"
    /\ \/ /\ ReturnErr("Other", "open_failed")
          /\ UNCHANGED opened
       \/ \E n \in 0..(MaxLine - opened), w \in Widths :
            /\ nlines' = n
            /\ opened' = opened + n
            /\ term_width' = w
            /\ idx' = 0
            /\ pc' = "top"
            /\ UNCHANGED <<result, cause, line_changes, handled, before>>
    /\ UNCHANGED <<file, delivered, backend, out, exit_status, stderr>>

\* write!(handle, ...)?: one more output line and the position after it, or
\* the error returned through `?`
Write(ev, next, i) ==
    \E w \in WriteOutcome :
      IF w = "ok"
      THEN /\ out' = Append(out, ev)
           /\ pc' = next
           /\ idx' = i
           /\ UNCHANGED <<result, cause, line_changes, handled, before, nlines, term_width>>
      ELSE /\ ReturnErr(w, IF w = "BrokenPipe" THEN "write_broken_pipe" ELSE "write_failed")
           /\ UNCHANGED out

\* print_horizontal_line, lines 39-49.  term_width - (PANEL_WIDTH + 1) is a
\* usize subtraction: below zero a debug build panics on the subtraction and a
\* release build wraps and panics inside "-".repeat (capacity overflow).
print_horizontal_line(kind, next) ==
    IF term_width - (PANEL_WIDTH + 1) < 0
    THEN /\ \E build \in {"debug", "release"} :
              Panic(IF build = "debug" THEN "subtract_overflow" ELSE "capacity_overflow")
         /\ UNCHANGED <<out, result, term_width>>
    ELSE /\ Write(Event(file, kind, 0, ""), next, idx)
         /\ UNCHANGED <<exit_status, stderr>>

\* print_file, line 68
print_top ==
    /\ pc = "top"
    /\ print_horizontal_line("top", "header")
    /\ UNCHANGED <<file, delivered, opened, backend>>

\* print_file, lines 70-76
print_header ==
    /\ pc = "header"
    /\ Write(Event(file, "header", 0, ""), "mid", idx)
    /\ UNCHANGED <<file, delivered, opened, backend, exit_status, stderr>>

\* print_file, line 78
print_mid ==
    /\ pc = "mid"
    /\ print_horizontal_line("mid", "body")
    /\ UNCHANGED <<file, delivered, opened, backend>>

\* print_file, lines 80-108: one iteration of the body loop (a line that does
\* not decode is replaced by a placeholder text and still makes a row)
print_row ==
    /\ pc = "body"
    /\ has_next_line(idx, nlines)
    /\ Write(Event(file, "body", line_nr(idx), line_change_glyph(line_changes, line_nr(idx))),
             "body", idx + 1)
    /\ UNCHANGED <<file, delivered, opened, backend, exit_status, stderr>>

\* print_file, lines 109-111: the bottom frame line; Ok(()) returns to line 132
print_bottom ==
    /\ pc = "body"
    /\ ~ has_next_line(idx, nlines)
    /\ print_horizontal_line("bottom", "file_done")
    /\ UNCHANGED <<file, delivered, opened, backend>>

\* run, lines 129-133: print_file returned Ok; its locals and the moved
\* line_changes are dropped and the loop advances
run_file_done ==
    /\ pc = "file_done"
    /\ pc' = "run_loop"
    /\ file' = file + 1
    /\ line_changes' = None
    /\ backend' = "pending"
    /\ nlines' = 0
    /\ term_width' = 0
    /\ idx' = 0
    /\ UNCHANGED <<handled, before, delivered, opened, out, result, cause, exit_status, stderr>>

\* main, lines 210-217
main_exit ==
    /\ pc = "main_result"
    /\ pc' = "exited"
    /\ IF result # "Ok" /\ result # "BrokenPipe"
       THEN /\ stderr' = "[bat error]"
            /\ exit_status' = 1
       ELSE /\ stderr' = ""
            /\ exit_status' = 0
    /\ UNCHANGED <<file, line_changes, handled, before, delivered, opened, backend, nlines,
                   term_width, idx, out, result, cause>>

Next ==
    \/ run_startup
    \/ run_next_file
    \/ run_done
    \/ get_changes_open
    \/ foreach_hunk
    \/ get_changes_return
    \/ print_file_open
    \/ print_top
    \/ print_header
    \/ print_mid
    \/ print_row
    \/ print_bottom
    \/ run_file_done
    \/ main_exit

Spec == Init /\ [][Next]_vars

TypeOK ==
    /\ pc \in {"main", "run_loop", "get_changes", "foreach", "print_file", "top",
               "header", "mid", "body", "file_done", "main_result", "exited"}
    /\ file \in 1..(MaxFiles + 1)
    /\ delivered \in 0..MaxHunks
    /\ opened \in 0..MaxLine
    /\ nlines \in 0..MaxLine
    /\ line_changes.some \in BOOLEAN
    /\ \A l \in DOMAIN line_changes.map : line_changes.map[l] \in LineChange
    /\ Len(handled) <= 1
    /\ result \in {"none", "Ok", "BrokenPipe", "Other"}

(***************************************************************************)
(* Properties                                                              *)
(***************************************************************************)

\* the hunk closure has handled at least one hunk in the running get_changes
HunkHandled == pc = "foreach" /\ handled # <<>>

\* m is defined and equal to kind on every line of lines
AllMarked(m, lines, kind) == \A l \in lines : l \in DOMAIN m /\ m[l] = kind

\* m2 agrees with m1 (same keys, same values) everywhere outside lines
SameOutside(m1, m2, lines) ==
    /\ (DOMAIN m1) \ lines = (DOMAIN m2) \ lines
    /\ \A l \in (DOMAIN m1) \ lines : m1[l] = m2[l]

\* C1: a hunk with old_lines = 0 and new_lines = n > 0 leaves every line of
\* new_start .. new_start+n-1 mapped to Added and every other entry as it was
\* before the hunk.
C1_PureAddition ==
    HunkHandled =>
      LET h == handled[1]
          lines == h.new_start..(h.new_start + h.new_lines - 1)
      IN  (h.old_lines = 0 /\ h.new_lines > 0) =>
            /\ AllMarked(line_changes.map, lines, "Added")
            /\ SameOutside(before, line_changes.map, lines)

\* a two-line pure addition has been handled and its lines are Added, next to
\* an entry of another kind left by an earlier hunk
C1_Witness ==
    /\ HunkHandled
    /\ handled[1].old_lines = 0 /\ handled[1].new_lines = 2 /\ handled[1].new_start = 1
    /\ AllMarked(line_changes.map, {1, 2}, "Added")
    /\ \E l \in DOMAIN line_changes.map : line_changes.map[l] # "Added"

\* C2: a hunk with new_lines = 0 and old_lines > 0 marks exactly one line:
\* line 1 as RemovedAbove when new_start <= 0, else line new_start as
\* RemovedBelow; every other entry is as it was before the hunk.
C2_PureDeletion ==
    HunkHandled =>
      LET h == handled[1]
      IN  (h.new_lines = 0 /\ h.old_lines > 0) =>
            IF h.new_start <= 0
            THEN /\ AllMarked(line_changes.map, {1}, "RemovedAbove")
                 /\ SameOutside(before, line_changes.map, {1})
            ELSE /\ AllMarked(line_changes.map, {h.new_start}, "RemovedBelow")
                 /\ SameOutside(before, line_changes.map, {h.new_start})

\* a deletion at the start of the file followed by a deletion further down:
\* line 1 is RemovedAbove and the later line RemovedBelow
C2_Witness ==
    /\ HunkHandled
    /\ handled[1].new_lines = 0 /\ handled[1].old_lines > 0 /\ handled[1].new_start = 2
    /\ before = (1 :> "RemovedAbove")
    /\ line_changes.map = (1 :> "RemovedAbove") @@ (2 :> "RemovedBelow")

\* C3: a hunk with old_lines > 0 and new_lines > 0 leaves every line of
\* new_start .. new_start+new_lines-1 mapped to Modified.
C3_MixedChange ==
    HunkHandled =>
      LET h == handled[1]
      IN  (h.old_lines > 0 /\ h.new_lines > 0) =>
            AllMarked(line_changes.map, h.new_start..(h.new_start + h.new_lines - 1),
                      "Modified")

\* a two-line mixed hunk has just been handled and both its lines are Modified
C3_Witness ==
    /\ HunkHandled
    /\ handled[1].old_lines > 0 /\ handled[1].new_lines = 2 /\ handled[1].new_start = 1
    /\ AllMarked(line_changes.map, {1, 2}, "Modified")

\* the classification section 4.1 gives a hunk, and the lines it gives it to
HunkKind(h) ==
    IF h.old_lines = 0 /\ h.new_lines > 0 THEN "Added"
    ELSE IF h.new_lines = 0 /\ h.old_lines > 0
         THEN (IF h.new_start <= 0 THEN "RemovedAbove" ELSE "RemovedBelow")
         ELSE "Modified"

HunkLines(h) ==
    IF h.new_lines = 0 /\ h.old_lines > 0
    THEN (IF h.new_start <= 0 THEN {1} ELSE {h.new_start})
    ELSE h.new_start..(h.new_start + h.new_lines - 1)

\* C4: last write wins.  After each hunk of the sequence, a line that hunk
\* classifies holds that hunk's classification whatever the earlier hunks had
\* given it, and every other entry is the one the earlier hunks left; so the
\* final map gives each line the classification of the last hunk that marks it.
C4_LastWriteWins ==
    HunkHandled =>
      LET m == line_changes.map
          h == handled[1]
      IN  /\ DOMAIN m = (DOMAIN before) \cup HunkLines(h)
          /\ \A l \in DOMAIN m :
               m[l] = IF l \in HunkLines(h) THEN HunkKind(h) ELSE before[l]

\* a hunk has marked a line that an earlier hunk had given another
\* classification, and the entry is now the later hunk's
C4_Witness ==
    /\ HunkHandled
    /\ \E l \in (DOMAIN before) \cap HunkLines(handled[1]) :
         /\ before[l] # HunkKind(handled[1])
         /\ line_changes.map[l] = HunkKind(handled[1])

\* C5: every key of the LineChanges mapping is >= 1.
C5_KeysPositive ==
    \A l \in DOMAIN line_changes.map : l >= 1

\* the output lines of file f whose kind is in kinds
RowsOf(f, kinds) == {i \in 1..Len(out) : out[i][1] = f /\ out[i][2] \in kinds}

\* C6 as stated: N body rows plus 3 frame/header rows.
C6_ThreeFrameRows ==
    pc = "file_done" =>
      /\ Cardinality(RowsOf(file, {"body"})) = nlines
      /\ Cardinality(RowsOf(file, {"top", "header", "mid", "bottom"})) = 3

\* C6 amended: a print_file call that returns Ok on a file of N lines has
\* written exactly N body rows plus exactly 4 frame/header rows (three frame
\* lines and the header row), with line_changes present or absent.
C6_FourFrameRows ==
    pc = "file_done" =>
      /\ Cardinality(RowsOf(file, {"body"})) = nlines
      /\ Cardinality(RowsOf(file, {"top", "mid", "bottom"})) = 3
      /\ Cardinality(RowsOf(file, {"header"})) = 1

\* print_file has returned Ok for a second file, of two lines and with
\* annotations, after a first file rendered without annotations
C6_Witness ==
    /\ pc = "file_done" /\ file = 2
    /\ nlines = 2 /\ line_changes.some
    /\ \E i \in RowsOf(2, {"body"}) : out[i][4] # " "
    /\ RowsOf(1, {"trace"}) = {} /\ RowsOf(1, {"bottom"}) # {}

BackendFailure == {"no_repo", "bad_pathspec", "diff_failed"}

\* C7: when the repository cannot be opened, the path spec cannot be built or
\* the diff fails, get_changes returns None, the run goes on to print_file
\* without an error, and every body row of that file has a blank glyph.
C7_SilentFallback ==
    /\ [](backend \in BackendFailure =>
            \A i \in RowsOf(file, {"body"}) : out[i][4] = " ")
    /\ [][ (pc = "get_changes" /\ backend' \in BackendFailure) =>
             /\ line_changes' = None
             /\ pc' = "print_file"
             /\ result' = "none" /\ exit_status' = -1 /\ stderr' = "" ]_vars

\* a file whose diff failed has been rendered to the end, one blank-glyph
\* row, after a file that was rendered with an annotation
C7_Witness ==
    /\ pc = "file_done" /\ file = 2
    /\ backend = "diff_failed"
    /\ Cardinality(RowsOf(2, {"body"})) = 1
    /\ \E i \in RowsOf(1, {"body"}) : out[i][4] # " "

\* C8: a terminal narrower than PANEL_WIDTH + 1 is rejected with an error
\* ("terminal too narrow") instead of the subtraction underflowing.
C8_NarrowTerminalRejected ==
    /\ cause \notin {"subtract_overflow", "capacity_overflow"}
    /\ (pc = "exited" /\ term_width \in 1..PANEL_WIDTH) =>
          (exit_status = 1 /\ stderr = "[bat error]")

\* the ways a run fails other than by a broken output pipe: a file that
\* cannot be opened or written, a failed render, and the start-up failures of
\* run, which section 7 also makes fatal
Failure    == {"open_failed", "write_failed", "println_failed",
               "subtract_overflow", "capacity_overflow",
               "no_home", "no_themes", "no_monokai"}
BrokenPipe == {"write_broken_pipe", "println_broken_pipe"}

\* C9: the exit status is non-zero exactly when the run failed for a reason
\* other than a broken output pipe; a broken pipe ends the run with status 0
\* and nothing on stderr.
C9_ExitStatus ==
    pc = "exited" =>
      /\ (exit_status # 0) <=> (cause \in Failure)
      /\ cause \in BrokenPipe => (exit_status = 0 /\ stderr = "")

\* C10: the output is, file after file in argument order, the lines of
\* get_changes' caller and of get_changes, then top frame, header, middle
\* frame, body rows numbered 1..N in order, bottom frame; nothing of a file
\* precedes the bottom frame of the file before it, and print_file writes
\* nothing while get_changes is running.
C10_OutputOrder ==
    /\ \A j \in 1..Len(out) :
         LET e == out[j]
             f == e[1]
             k == e[2]
             current == f = file /\ pc \in {"top", "header", "mid", "body", "file_done"}
             prevIs(kinds) == j > 1 /\ out[j - 1][1] = f /\ out[j - 1][2] \in kinds
         IN  /\ f \in 1..file
             /\ k = "path"   => IF j = 1 THEN f = 1
                                ELSE out[j - 1][1] = f - 1 /\ out[j - 1][2] = "bottom"
             /\ k = "trace"  => prevIs({"path"})
             /\ k = "top"    => prevIs({"path", "trace"})
             /\ k = "header" => prevIs({"top"})
             /\ k = "mid"    => prevIs({"header"})
             /\ k = "body"   => /\ \/ prevIs({"mid"}) /\ e[3] = 1
                                   \/ prevIs({"body"}) /\ e[3] = out[j - 1][3] + 1
                                /\ current => e[3] <= nlines
             /\ k = "bottom" => /\ prevIs({"mid", "body"})
                                /\ current => nlines = IF out[j - 1][2] = "mid" THEN 0
                                                       ELSE out[j - 1][3]
             /\ k \in {"path", "trace", "top", "header", "mid", "body", "bottom"}
    /\ pc \in {"get_changes", "foreach"} =>
         (out # <<>> /\ out[Len(out)] = Event(file, "path", 0, ""))

\* two files rendered to the end, the first of two lines
C10_Witness ==
    /\ pc = "exited" /\ result = "Ok"
    /\ file = 3
    /\ Cardinality(RowsOf(1, {"body"})) = 2
    /\ RowsOf(1, {"bottom"}) # {} /\ RowsOf(2, {"bottom"}) # {}
====
